---- MODULE Spec2Model ----
(***************************************************************************)
(* State-machine model of the SkyPulse air-quality analytics engine        *)
(* (python-analytics/analytics_service.py, database_analytics.py,          *)
(* service_manager.py).                                                    *)
(*                                                                         *)
(*   Spec          the database path: fetch_data_from_database and the     *)
(*                 availability resolver it calls, statement by statement, *)
(*                 against a table aqi_data                                *)
(*   SpecClassify  the AQI classifier get_aqi_category (both variants)     *)
(*   SpecPm25      the PM2.5 -> AQI converter calculate_aqi_from_pm25      *)
(*   SpecNormalize the reading normalizer process_real_time_data           *)
(*   SpecStats     the statistics aggregator calculate_statistics (both    *)
(*                 variants)                                               *)
(*   SpecPipeline  operation "stats" of main, run twice on one input       *)
(*   SpecService   the service manager: setup_dependencies and             *)
(*                 run_analytics_service                                   *)
(*   SpecConcurrent  the database path while another client of the table   *)
(*                 deletes rows between the statements of a request        *)
(*                                                                         *)
(* In the database path time is counted in days, in the normalizer and    *)
(* the aggregator in hours.  Concentrations, averages and deviations are   *)
(* exact rationals in hundredths (an integer n stands for n / 100).        *)
(***************************************************************************)
EXTENDS Integers, Sequences, FiniteSets, TLC

VARIABLES
    \* ---- database path -------------------------------------------------
    store,        \* rows of table aqi_data: [city, timestamp, aqi_value]
    store0,       \* the table's content as its writers left it
    pc,           \* position of the current request
    args,         \* the caller's arguments (city_name, start_date, end_date)
    start_date,   \* local start_date after parsing/defaulting: <<>> or <<t>>
    end_date,     \* local end_date   after parsing/defaulting: <<>> or <<t>>
    now_read,     \* value datetime.now() returned, <<>> when it was not read
    city_row,     \* result row of the city-existence query, <<>> before it
    scenario,     \* value returned by the resolver, 0 before it returned
    data_info,    \* dictionary returned by the resolver, <<>> before
    queries,      \* queries of this request that completed, in order
    df,           \* the readings returned to the caller
    err,          \* cause of the raised exception, "" when none
    \* ---- classifier -----------------------------------------------------
    cpc,          \* position of the classifier run
    aqi_in,       \* classifier input, in hundredths
    category,     \* analytics_service.get_aqi_category result
    db_category,  \* database_analytics.get_aqi_category result
    \* ---- converter ------------------------------------------------------
    ppc,          \* position of the converter run
    pm25_in,      \* converter input: <<>> (missing) or <<hundredths>>
    aqi_out,      \* converter result, <<>> before it ran
    \* ---- normalizer -----------------------------------------------------
    npc,          \* position of the process_real_time_data call
    n_input,      \* data_input: [ok, data], data the list of raw records
    n_now,        \* value pd.to_datetime('now') gave, <<>> when not read
    n_df,         \* the DataFrame returned
    n_err,        \* cause of the raised exception, "" when none
    \* ---- aggregator ----------------------------------------------------
    spc,          \* position of the aggregator run
    s_readings,   \* the readings both calculate_statistics are given
    s_stats,      \* outcome of analytics_service.calculate_statistics
    s_db_stats,   \* outcome of database_analytics.calculate_statistics
    \* ---- normalize, then aggregate, twice ------------------------------
    rpc,          \* position: how many runs of the input are through
    r_input,      \* data_input of both runs
    r_now,        \* per run the value pd.to_datetime('now') gave, or <<>>
    r_out,        \* per run the outcome of calculate_statistics
    \* ---- service manager -----------------------------------------------
    sv_pc,        \* position of the current service-manager call
    sv_marker,    \* the file .setup_complete exists
    sv_python_ok, \* sys.version_info is 3.7 or later
    sv_importable,\* the required packages importlib can import
    sv_argv,      \* sys.argv
    sv_calls,     \* calls made so far
    sv_last       \* what the last call did

dbvars == <<store, store0, pc, args, start_date, end_date, now_read, city_row,
            scenario, data_info, queries, df, err>>
clvars == <<cpc, aqi_in, category, db_category>>
pmvars == <<ppc, pm25_in, aqi_out>>
nmvars == <<npc, n_input, n_now, n_df, n_err>>
stvars == <<spc, s_readings, s_stats, s_db_stats>>
plvars == <<rpc, r_input, r_now, r_out>>
svvars == <<sv_pc, sv_marker, sv_python_ok, sv_importable, sv_argv, sv_calls,
            sv_last>>
vars == <<dbvars, clvars, pmvars, nmvars, stvars, plvars, svvars>>

(***************************************************************************)
(* Bounds of the model                                                     *)
(***************************************************************************)
MaxTick == 2          \* timestamps are the days 0, TimeStep, .., MaxTick*TimeStep
TimeStep == 15
MaxRows == 2          \* the table holds at most MaxRows rows
MaxAqiIn == 50500     \* classifier inputs go up to 505.00
MinAqiNeg == 200      \* ... and down to -2.00
MaxPm25 == 50100      \* converter inputs go up to 501.00
MinPm25Neg == 500     \* ... and down to -5.00
MaxRecords == 2       \* an input collection holds at most MaxRecords records
MaxReadings == 3      \* the aggregator is given at most MaxReadings readings
MaxCalls == 3         \* the service manager is called at most MaxCalls times

(***************************************************************************)
(* Program constants                                                       *)
(***************************************************************************)
DefaultWindowDays == 30      \* timedelta(days=30)
Pm25Fallback == 50           \* return 50 for a missing or negative value
Pm25Top == 500               \* return 500 above the last breakpoint row
Scale == 100                 \* hundredths: round(.., 2) of the statistics

TimePoints == {k * TimeStep : k \in 0..MaxTick}
Cities == {"Delhi", "Mumbai"}
AqiSamples == {42, 180}

(***************************************************************************)
(* AQI classifier                                                          *)
(***************************************************************************)
\* self.aqi_categories of AirQualityAnalytics, in insertion order
aqi_categories ==
    << <<"Good", 0, 50, "#00ff88">>,
       <<"Moderate", 51, 100, "#ffff00">>,
       <<"Unhealthy for Sensitive Groups", 101, 150, "#ff8800">>,
       <<"Unhealthy", 151, 200, "#ff0000">>,
       <<"Very Unhealthy", 201, 300, "#8800ff">>,
       <<"Hazardous", 301, 500, "#880000">> >>

\* self.aqi_categories of DatabaseAirQualityAnalytics
db_aqi_categories ==
    << <<"Good", 0, 50, "#00ff88">>,
       <<"Moderate", 51, 100, "#ffff00">>,
       <<"Unhealthy for Sensitive Groups", 101, 150, "#ff8800">>,
       <<"Unhealthy", 151, 200, "#ff0000">>,
       <<"Very Unhealthy", 201, 300, "#8800ff">>,
       <<"Hazardous", 301, 500, "#880000">> >>

\* the loop "for category, (min_val, max_val, color) in table.items()":
\* the first entry from position i on whose closed range holds v
\* (hundredths); fallback is the value of the return after the loop
RECURSIVE ScanCategories(_, _, _, _)
ScanCategories(table, i, v, fallback) ==
    IF i > Len(table)
    THEN fallback
    ELSE IF table[i][2] * Scale <= v /\ v <= table[i][3] * Scale
         THEN <<table[i][1], table[i][4]>>
         ELSE ScanCategories(table, i + 1, v, fallback)

\* variant: ranges that leave out their upper end
RECURSIVE ScanCategoriesHalfOpen(_, _, _, _)
ScanCategoriesHalfOpen(table, i, v, fallback) ==
    IF i > Len(table)
    THEN fallback
    ELSE IF table[i][2] * Scale <= v /\ v < table[i][3] * Scale
         THEN <<table[i][1], table[i][4]>>
         ELSE ScanCategoriesHalfOpen(table, i + 1, v, fallback)

get_aqi_category_half_open(v) ==
    ScanCategoriesHalfOpen(aqi_categories, 1, v, <<"Hazardous", "#880000">>)

\* variant: no category when no range matches
get_aqi_category_unknown_fallback(v) ==
    ScanCategories(aqi_categories, 1, v, <<"Unknown", "#000000">>)

get_aqi_category(v) ==
    ScanCategories(aqi_categories, 1, v, <<"Hazardous", "#880000">>)

db_get_aqi_category(v) ==
    ScanCategories(db_aqi_categories, 1, v, <<"Hazardous", "#880000">>)

(***************************************************************************)
(* Table aqi_data and the three SELECT statements                          *)
(***************************************************************************)
Rows == [city : Cities, timestamp : TimePoints, aqi_value : AqiSamples]

RECURSIVE SubsetsUpTo(_, _)
SubsetsUpTo(S, k) ==
    IF k = 0 THEN {{}}
    ELSE LET P == SubsetsUpTo(S, k - 1)
         IN  P \cup {p \cup {x} : p \in P, x \in S}

Tables == SubsetsUpTo(Rows, MaxRows)

Min(S) == CHOOSE x \in S : \A y \in S : x <= y
Max(S) == CHOOSE x \in S : \A y \in S : y <= x

\* variant: the window taken without its two end points
Between_exclusive(t, lo, hi) == lo < t /\ t < hi

\* variant: the two bounds put in order before the comparison
Between_symmetric(t, lo, hi) ==
    (lo <= t /\ t <= hi) \/ (hi <= t /\ t <= lo)

\* SQL "timestamp BETWEEN lo AND hi" with bound parameters lo, hi
Between(t, lo, hi) == lo <= t /\ t <= hi

\* WHERE city = %s
CityRows(st, c) == {r \in st : r.city = c}

\* WHERE city = %s AND timestamp BETWEEN %s AND %s
PeriodRows(st, c, lo, hi) ==
    {r \in st : r.city = c /\ Between(r.timestamp, lo, hi)}

\* variant: the city-existence query without its WHERE clause
city_check_query_unfiltered(st, c) ==
    [city_count    |-> Cardinality(st),
     earliest_data |-> IF st = {} THEN <<>>
                       ELSE <<Min({r.timestamp : r \in st})>>,
     latest_data   |-> IF st = {} THEN <<>>
                       ELSE <<Max({r.timestamp : r \in st})>>]

\* SELECT COUNT(*), MIN(timestamp), MAX(timestamp) ... WHERE city = %s
\* (MIN and MAX of no rows are NULL, written <<>>)
city_check_query(st, c) ==
    LET rs == CityRows(st, c)
    IN  [city_count    |-> Cardinality(rs),
         earliest_data |-> IF rs = {} THEN <<>>
                           ELSE <<Min({r.timestamp : r \in rs})>>,
         latest_data   |-> IF rs = {} THEN <<>>
                           ELSE <<Max({r.timestamp : r \in rs})>>]

\* SELECT COUNT(*) as period_count ... BETWEEN %s AND %s
period_check_query(st, c, lo, hi) == Cardinality(PeriodRows(st, c, lo, hi))

\* the sequences holding exactly the rows of rs, each once, with
\* timestamps ascending: the possible results of ORDER BY timestamp
RECURSIVE OrderedBy(_)
OrderedBy(rs) ==
    IF rs = {} THEN {<<>>}
    ELSE LET firsts == {r \in rs : \A q \in rs : r.timestamp <= q.timestamp}
         IN  UNION {{<<r>> \o tl : tl \in OrderedBy(rs \ {r})} : r \in firsts}

\* variant: scenario 2 fetches only the city's most recent timestamp
data_query_latest_only(st, c, sc, lo, hi) ==
    IF sc = 1 THEN PeriodRows(st, c, lo, hi)
    ELSE {r \in CityRows(st, c) :
            \A q \in CityRows(st, c) : q.timestamp <= r.timestamp}

\* the rows the data query of fetch_data_from_database selects
data_query(st, c, sc, lo, hi) ==
    IF sc = 1 THEN PeriodRows(st, c, lo, hi) ELSE CityRows(st, c)

\* variant: a statement that removes the rows it selected
StoreAfterSelect_consuming(st, selected) == st \ selected

\* every statement the engine issues is a SELECT: the table is left as it is
StoreAfterSelect(st, selected) == st

(***************************************************************************)
(* process_database_data                                                   *)
(***************************************************************************)
\* r put into the timestamp-sorted sequence sq behind every reading that is
\* not later than it (a stable insertion)
RECURSIVE InsertByTimestamp(_, _)
InsertByTimestamp(sq, r) ==
    IF sq = <<>> THEN <<r>>
    ELSE IF sq[Len(sq)].timestamp <= r.timestamp
         THEN Append(sq, r)
         ELSE Append(InsertByTimestamp(SubSeq(sq, 1, Len(sq) - 1), r),
                     sq[Len(sq)])

\* df.sort_values('timestamp')
RECURSIVE SortByTimestamp(_)
SortByTimestamp(sq) ==
    IF sq = <<>> THEN <<>>
    ELSE InsertByTimestamp(SortByTimestamp(SubSeq(sq, 1, Len(sq) - 1)),
                           sq[Len(sq)])

process_database_data(frame) ==
    LET sorted == SortByTimestamp(frame)
    IN  [i \in 1..Len(sorted) |->
            [city         |-> sorted[i].city,
             timestamp    |-> sorted[i].timestamp,
             aqi_value    |-> sorted[i].aqi_value,
             aqi_category |-> db_get_aqi_category(sorted[i].aqi_value * Scale)[1],
             aqi_color    |-> db_get_aqi_category(sorted[i].aqi_value * Scale)[2]]]

(***************************************************************************)
(* fetch_data_from_database and check_city_and_data_availability           *)
(***************************************************************************)
\* an argument of the command line: None, the text of a date, or a text
\* that is no date
NoneArg == <<>>
DateText(t) == <<"date", t>>
BadText == <<"text">>
DateArgs == {NoneArg, BadText} \cup {DateText(t) : t \in TimePoints}

\* isinstance(x, str): every argument but None is a string
IsStr(a) == a # NoneArg

\* pd.to_datetime of a string that is a date
to_datetime(a) == <<a[2]>>

\* "if isinstance(start_date, str): start_date = pd.to_datetime(start_date)"
ParseArg(a) == IF IsStr(a) THEN to_datetime(a) ELSE <<>>

\* "if not end_date: end_date = datetime.now()"
ResolveEnd(e, now) == IF e = <<>> THEN <<now>> ELSE e

\* variant: the default start without the 30 days taken off
ResolveStart_no_offset(s, e) == IF s = <<>> THEN e ELSE s

\* "if not start_date: start_date = end_date - timedelta(days=30)"
ResolveStart(s, e) == IF s = <<>> THEN <<e[1] - DefaultWindowDays>> ELSE s

\* variant: an empty period reported as scenario 3
PeriodScenario_empty_is_3(period_count) == IF period_count > 0 THEN 1 ELSE 3

\* "if period_result.period_count > 0: return 1, ... else: return 2, ..."
PeriodScenario(period_count) == IF period_count > 0 THEN 1 ELSE 2

NoArgs == [city_name |-> "", start_date |-> NoneArg, end_date |-> NoneArg]

NoLocals ==
    /\ start_date = <<>> /\ end_date = <<>> /\ now_read = <<>>
    /\ city_row = <<>> /\ scenario = 0 /\ data_info = <<>>
    /\ queries = <<>> /\ df = <<>> /\ err = ""

\* lines 147-157: the call, the parsing of the dates and their defaults.
\* datetime.now() is read only when end_date is missing.
FetchBegin(c, s, e, now) ==
    /\ pc = "idle"
    /\ args' = [city_name |-> c, start_date |-> s, end_date |-> e]
    /\ IF s = BadText \/ e = BadText
       THEN /\ pc' = "error"
            /\ err' = "Database query failed: unparseable date"
            /\ UNCHANGED <<start_date, end_date, now_read>>
       ELSE LET e1 == ResolveEnd(ParseArg(e), now)
            IN  /\ now_read' = IF ParseArg(e) = <<>> THEN <<now>> ELSE <<>>
                /\ end_date' = e1
                /\ start_date' = ResolveStart(ParseArg(s), e1)
                /\ pc' = "check_city"
                /\ err' = ""
    /\ UNCHANGED <<store, store0, city_row, scenario, data_info, queries, df>>

\* lines 94-109 and 162-164: the city-existence query; scenario 3 makes
\* fetch_data_from_database raise
CityCheckQuery ==
    /\ pc = "check_city"
    /\ LET result == city_check_query(store, args.city_name)
       IN  /\ city_row' = result
           /\ queries' = Append(queries, "city_check")
           /\ store' = StoreAfterSelect(store, CityRows(store, args.city_name))
           /\ IF result.city_count = 0
              THEN /\ scenario' = 3
                   /\ data_info' = [message |-> "City not found in database"]
                   /\ err' = "Database query failed: City not found in database"
                   /\ pc' = "error"
              ELSE /\ pc' = "check_period"
                   /\ UNCHANGED <<scenario, data_info, err>>
    /\ UNCHANGED <<store0, args, start_date, end_date, now_read, df>>

\* lines 111-135: the period-count query and the resolver's return
PeriodCheckQuery ==
    /\ pc = "check_period"
    /\ LET period_count == period_check_query(store, args.city_name,
                                              start_date[1], end_date[1])
       IN  /\ queries' = Append(queries, "period_check")
           /\ store' = StoreAfterSelect(store,
                          PeriodRows(store, args.city_name,
                                     start_date[1], end_date[1]))
           /\ scenario' = PeriodScenario(period_count)
           /\ data_info' =
                 IF PeriodScenario(period_count) = 1
                 THEN [message |-> "Data available in requested period",
                       records_in_period |-> period_count,
                       earliest_data |-> city_row.earliest_data,
                       latest_data |-> city_row.latest_data]
                 ELSE [message |-> "City exists but no data for requested period",
                       earliest_data |-> city_row.earliest_data,
                       latest_data |-> city_row.latest_data,
                       total_records |-> city_row.city_count]
           /\ pc' = "data_query"
    /\ UNCHANGED <<store0, args, start_date, end_date, now_read, city_row,
                   df, err>>

\* variant: the data query without the check for an empty result
DataQuery_no_empty_check ==
    /\ pc = "data_query"
    /\ LET selected == data_query(store, args.city_name, scenario,
                                  start_date[1], end_date[1])
       IN  /\ queries' = Append(queries, "data")
           /\ store' = StoreAfterSelect(store, selected)
           /\ \E frame \in OrderedBy(selected) :
                /\ df' = process_database_data(frame)
                /\ pc' = "done"
                /\ err' = ""
    /\ UNCHANGED <<store0, args, start_date, end_date, now_read, city_row,
                   scenario, data_info>>

\* lines 166-197: the data query chosen by the scenario, the check for an
\* empty result and process_database_data.  Rows with equal timestamps
\* come in any order.
DataQuery ==
    /\ pc = "data_query"
    /\ LET selected == data_query(store, args.city_name, scenario,
                                  start_date[1], end_date[1])
       IN  /\ queries' = Append(queries, "data")
           /\ store' = StoreAfterSelect(store, selected)
           /\ \E frame \in OrderedBy(selected) :
                IF frame = <<>>
                THEN /\ err' = "Database query failed: No data found for city"
                     /\ pc' = "error"
                     /\ df' = <<>>
                ELSE /\ df' = process_database_data(frame)
                     /\ pc' = "done"
                     /\ err' = ""
    /\ UNCHANGED <<store0, args, start_date, end_date, now_read, city_row,
                   scenario, data_info>>

\* lines 137-139 and 199-201: the storage layer fails on connect or execute;
\* the statement does not complete and the exception reaches the caller
QueryFails ==
    /\ pc \in {"check_city", "check_period", "data_query"}
    /\ err' = IF pc = "data_query"
              THEN "Database query failed: storage"
              ELSE "Database query failed: Error checking data availability"
    /\ pc' = "error"
    /\ UNCHANGED <<store, store0, args, start_date, end_date, now_read,
                   city_row, scenario, data_info, queries, df>>

\* the call has returned or raised; the engine takes the next request
Return ==
    /\ pc \in {"done", "error"}
    /\ pc' = "idle"
    /\ start_date' = <<>> /\ end_date' = <<>> /\ now_read' = <<>>
    /\ city_row' = <<>> /\ scenario' = 0 /\ data_info' = <<>>
    /\ queries' = <<>> /\ df' = <<>> /\ err' = ""
    /\ args' = NoArgs
    /\ UNCHANGED <<store, store0>>

DbIdle ==
    /\ pc = "idle" /\ args = NoArgs /\ NoLocals

ClIdle == cpc = "off" /\ aqi_in = 0 /\ category = <<>> /\ db_category = <<>>
PmIdle == ppc = "off" /\ pm25_in = <<>> /\ aqi_out = <<>>
NmIdle ==
    /\ npc = "off" /\ n_input = [ok |-> FALSE, data |-> <<>>]
    /\ n_now = <<>> /\ n_df = <<>> /\ n_err = ""
StIdle == spc = "off" /\ s_readings = <<>> /\ s_stats = <<>> /\ s_db_stats = <<>>
PlIdle ==
    /\ rpc = "off" /\ r_input = [ok |-> FALSE, data |-> <<>>]
    /\ r_now = <<>> /\ r_out = <<>>
SvIdle ==
    /\ sv_pc = "off" /\ sv_marker = FALSE /\ sv_python_ok = TRUE
    /\ sv_importable = {} /\ sv_argv = "" /\ sv_calls = 0 /\ sv_last = <<>>
OthersIdle == StIdle /\ PlIdle /\ SvIdle

Init ==
    /\ store \in Tables
    /\ store0 = store
    /\ DbIdle
    /\ ClIdle
    /\ PmIdle
    /\ NmIdle
    /\ OthersIdle

Next ==
    \/ /\ \E c \in Cities, s \in DateArgs, e \in DateArgs, now \in TimePoints :
             FetchBegin(c, s, e, now)
       /\ UNCHANGED <<clvars, pmvars, nmvars, stvars, plvars, svvars>>
    \/ CityCheckQuery /\ UNCHANGED <<clvars, pmvars, nmvars, stvars, plvars, svvars>>
    \/ PeriodCheckQuery /\ UNCHANGED <<clvars, pmvars, nmvars, stvars, plvars, svvars>>
    \/ DataQuery /\ UNCHANGED <<clvars, pmvars, nmvars, stvars, plvars, svvars>>
    \/ QueryFails /\ UNCHANGED <<clvars, pmvars, nmvars, stvars, plvars, svvars>>
    \/ Return /\ UNCHANGED <<clvars, pmvars, nmvars, stvars, plvars, svvars>>

Spec == Init /\ [][Next]_vars

\* another client of table aqi_data deletes rows while a request is
\* between two of its statements: each statement runs in a connection of
\* its own (lines 102 and 188) and nothing holds the rows in between
OtherClientDeletes ==
    /\ pc \in {"check_period", "data_query"}
    /\ \E gone \in (SUBSET store) \ {{}} :
          /\ store' = store \ gone
          /\ store0' = store \ gone
    /\ UNCHANGED <<pc, args, start_date, end_date, now_read, city_row,
                   scenario, data_info, queries, df, err>>

NextConcurrent ==
    \/ Next
    \/ OtherClientDeletes /\ UNCHANGED <<clvars, pmvars, nmvars, stvars, plvars, svvars>>

SpecConcurrent == Init /\ [][NextConcurrent]_vars

(***************************************************************************)
(* Classifier runs: one input, classified by both implementations          *)
(***************************************************************************)
AqiInputs == (0 - MinAqiNeg)..MaxAqiIn

ClassifyInit ==
    /\ cpc = "input" /\ aqi_in \in AqiInputs
    /\ category = <<>> /\ db_category = <<>>

\* AirQualityAnalytics.get_aqi_category(aqi_in / 100)
Classify ==
    /\ cpc = "input"
    /\ category = <<>>
    /\ category' = get_aqi_category(aqi_in)
    /\ UNCHANGED <<cpc, aqi_in, db_category>>

\* DatabaseAirQualityAnalytics.get_aqi_category(aqi_in / 100)
DbClassify ==
    /\ cpc = "input"
    /\ db_category = <<>>
    /\ db_category' = db_get_aqi_category(aqi_in)
    /\ UNCHANGED <<cpc, aqi_in, category>>

InitClassify ==
    /\ store = {} /\ store0 = {} /\ DbIdle
    /\ ClassifyInit
    /\ PmIdle
    /\ NmIdle
    /\ OthersIdle

NextClassify ==
    \/ Classify /\ UNCHANGED <<dbvars, pmvars, nmvars, stvars, plvars, svvars>>
    \/ DbClassify /\ UNCHANGED <<dbvars, pmvars, nmvars, stvars, plvars, svvars>>

SpecClassify == InitClassify /\ [][NextClassify]_vars

(***************************************************************************)
(* PM2.5 -> AQI converter                                                  *)
(***************************************************************************)
\* breakpoints of calculate_aqi_from_pm25: (bp_lo, bp_hi, aqi_lo, aqi_hi),
\* the concentrations in tenths (12.1 is 121)
breakpoints ==
    << <<0, 120, 0, 50>>,
       <<121, 354, 51, 100>>,
       <<355, 554, 101, 150>>,
       <<555, 1504, 151, 200>>,
       <<1505, 2504, 201, 300>>,
       <<2505, 3504, 301, 400>>,
       <<3505, 5004, 401, 500>> >>

TenthsToHundredths(t) == 10 * t

\* the integers nearest to num / den, for num >= 0, den > 0: both
\* neighbours where the exact quotient is a half
RoundResults(num, den) ==
    LET q == num \div den
        r == num % den
    IN  IF 2 * r < den THEN {q}
        ELSE IF 2 * r > den THEN {q + 1}
        ELSE {q, q + 1}

\* the concentrations (hundredths, up to 501.00) whose exact interpolated
\* value is a half and where int(round(..)) gives the lower neighbour.
\* Python's round takes a half to the even neighbour, and the operand is a
\* double: where the exact value is k + 0.5 the double is k + 0.5 or just
\* above it.  At these inputs the double is the half and k is even; at
\* every other exact half the result is k + 1.
HalfRoundsDown ==
    {12, 60, 204, 252, 300, 396, 492, 588, 684, 780, 828, 876, 1020, 1068,
     15605, 17825, 20045, 22265, 24485, 25605, 27825, 30045, 32265, 42545}

\* int(round(..)) of the interpolation at concentration c, num / den its
\* exact value above aqi_lo
RoundAt(c, num, den) ==
    IF 2 * (num % den) = den
    THEN IF c \in HalfRoundsDown THEN {num \div den} ELSE {(num \div den) + 1}
    ELSE RoundResults(num, den)

\* variant: the return after the loop gives the fallback of a missing value
RECURSIVE ScanBreakpoints_fallback_after_loop(_, _)
ScanBreakpoints_fallback_after_loop(i, c) ==
    IF i > Len(breakpoints)
    THEN {Pm25Fallback}
    ELSE LET lo == TenthsToHundredths(breakpoints[i][1])
             hi == TenthsToHundredths(breakpoints[i][2])
             aqi_lo == breakpoints[i][3]
             aqi_hi == breakpoints[i][4]
         IN  IF lo <= c /\ c <= hi
             THEN {a + aqi_lo :
                     a \in RoundAt(c, (aqi_hi - aqi_lo) * (c - lo), hi - lo)}
             ELSE ScanBreakpoints_fallback_after_loop(i + 1, c)

\* variant: the interpolation without "+ aqi_lo"
RECURSIVE ScanBreakpoints_no_offset(_, _)
ScanBreakpoints_no_offset(i, c) ==
    IF i > Len(breakpoints)
    THEN {Pm25Top}
    ELSE LET lo == TenthsToHundredths(breakpoints[i][1])
             hi == TenthsToHundredths(breakpoints[i][2])
             aqi_lo == breakpoints[i][3]
             aqi_hi == breakpoints[i][4]
         IN  IF lo <= c /\ c <= hi
             THEN RoundAt(c, (aqi_hi - aqi_lo) * (c - lo), hi - lo)
             ELSE ScanBreakpoints_no_offset(i + 1, c)

\* the loop over the breakpoints from row i on, c in hundredths:
\* ((aqi_hi - aqi_lo) / (bp_hi - bp_lo)) * (pm25 - bp_lo) + aqi_lo
RECURSIVE ScanBreakpoints(_, _)
ScanBreakpoints(i, c) ==
    IF i > Len(breakpoints)
    THEN {Pm25Top}
    ELSE LET lo == TenthsToHundredths(breakpoints[i][1])
             hi == TenthsToHundredths(breakpoints[i][2])
             aqi_lo == breakpoints[i][3]
             aqi_hi == breakpoints[i][4]
         IN  IF lo <= c /\ c <= hi
             THEN {a + aqi_lo :
                     a \in RoundAt(c, (aqi_hi - aqi_lo) * (c - lo), hi - lo)}
             ELSE ScanBreakpoints(i + 1, c)

\* variant: no test for a negative value
calculate_aqi_from_pm25_no_negative_test(x) ==
    IF x = <<>>
    THEN {Pm25Fallback}
    ELSE ScanBreakpoints(1, x[1])

\* the values calculate_aqi_from_pm25 can return for x: <<>> is a missing
\* value (pd.isna), <<c>> the concentration c / 100
calculate_aqi_from_pm25(x) ==
    IF x = <<>> \/ x[1] < 0
    THEN {Pm25Fallback}
    ELSE ScanBreakpoints(1, x[1])

Pm25Inputs == {<<>>} \cup {<<c>> : c \in (0 - MinPm25Neg)..MaxPm25}

Pm25Init ==
    /\ ppc = "input" /\ pm25_in \in Pm25Inputs /\ aqi_out = <<>>

Convert ==
    /\ ppc = "input"
    /\ \E a \in calculate_aqi_from_pm25(pm25_in) : aqi_out' = <<a>>
    /\ ppc' = "converted"
    /\ UNCHANGED pm25_in

InitPm25 ==
    /\ store = {} /\ store0 = {} /\ DbIdle
    /\ ClIdle
    /\ Pm25Init
    /\ NmIdle
    /\ OthersIdle

NextPm25 == Convert /\ UNCHANGED <<dbvars, clvars, nmvars, stvars, plvars, svvars>>

SpecPm25 == InitPm25 /\ [][NextPm25]_vars

(***************************************************************************)
(* Properties of the database path (Spec)                                  *)
(***************************************************************************)
Range(sq) == {sq[i] : i \in 1..Len(sq)}

\* the stored readings of the requested city
KnownCityRows == {r \in store : r.city = args.city_name}

\* the stored readings of the requested city with a timestamp in
\* [start_date, end_date]
WindowRows ==
    {r \in store : /\ r.city = args.city_name
                   /\ start_date[1] <= r.timestamp
                   /\ r.timestamp <= end_date[1]}

\* the stored reading a returned reading was made from
AsRow(x) == [city |-> x.city, timestamp |-> x.timestamp,
             aqi_value |-> x.aqi_value]

AllQueries == <<"city_check", "period_check", "data">>

\* C1: when no stored reading has the requested city, the resolver returns
\* scenario 3 with the not-found message and fetch_data_from_database ends
\* in an error: the only query that ever completes is the city-existence
\* query, and no readings are returned.
C1_UnknownCityStops ==
    (pc # "idle" /\ ~ \E r \in store : r.city = args.city_name) =>
        /\ pc \in {"check_city", "error"}
        /\ queries \in {<<>>, <<"city_check">>}
        /\ df = <<>>
        /\ queries = <<"city_check">> =>
              /\ scenario = 3
              /\ data_info = [message |-> "City not found in database"]
              /\ pc = "error"

C1_Witness ==
    /\ pc = "error" /\ scenario = 3 /\ queries = <<"city_check">>
    /\ store # {}

\* C2: the resolver returns scenario 1 exactly when a stored reading of the
\* city lies in the closed window [start_date, end_date]; the readings then
\* returned are exactly the city's readings inside that window.
C2_Scenario1ExactWindow ==
    /\ scenario # 0 =>
          (scenario = 1 <=>
              \E r \in store : /\ r.city = args.city_name
                               /\ start_date[1] <= r.timestamp
                               /\ r.timestamp <= end_date[1])
    /\ (pc = "done" /\ scenario = 1) =>
          /\ \A i \in 1..Len(df) :
                /\ df[i].city = args.city_name
                /\ start_date[1] <= df[i].timestamp
                /\ df[i].timestamp <= end_date[1]
          /\ {AsRow(x) : x \in Range(df)} = WindowRows
          /\ Len(df) = Cardinality(WindowRows)

C2_Witness ==
    /\ pc = "done" /\ scenario = 1
    /\ \E r \in KnownCityRows : r \notin WindowRows
    /\ \E r \in WindowRows : r.timestamp = end_date[1]

\* C3: a known city without a reading in the window gives scenario 2; the
\* result then holds every stored reading of the city, from earliest_data
\* to latest_data, and carries scenario 2 and its message.
C3_Scenario2FullRange ==
    /\ (scenario # 0 /\ KnownCityRows # {} /\ WindowRows = {}) =>
          /\ scenario = 2
          /\ data_info.message = "City exists but no data for requested period"
          /\ data_info.earliest_data =
                <<Min({r.timestamp : r \in KnownCityRows})>>
          /\ data_info.latest_data =
                <<Max({r.timestamp : r \in KnownCityRows})>>
          /\ data_info.total_records = Cardinality(KnownCityRows)
    /\ (pc = "done" /\ scenario = 2) =>
          /\ {AsRow(x) : x \in Range(df)} = KnownCityRows
          /\ Len(df) = Cardinality(KnownCityRows)
          /\ <<df[1].timestamp>> = data_info.earliest_data
          /\ <<df[Len(df)].timestamp>> = data_info.latest_data
          /\ WindowRows = {}

C3_Witness ==
    /\ pc = "done" /\ scenario = 2 /\ Len(df) = 2
    /\ df[1].timestamp < df[2].timestamp
    /\ end_date[1] < df[1].timestamp

\* C4: a resolver that returned gave 1, 2 or 3, and the one that belongs to
\* the store's content: 3 for no reading of the city, 1 for a reading in the
\* window, 2 for readings of the city but none in the window.
C4_ExactlyOneScenario ==
    /\ scenario \in {0, 1, 2, 3}
    /\ scenario # 0 =>
          LET unknown == KnownCityRows = {}
              inside == WindowRows # {}
          IN  /\ scenario = 3 <=> unknown
              /\ scenario = 1 <=> (~unknown /\ inside)
              /\ scenario = 2 <=> (~unknown /\ ~inside)

C4_Witness ==
    /\ pc = "data_query" /\ scenario = 1
    /\ queries = <<"city_check", "period_check">>

\* C5: once the dates are resolved both bounds of the window are set, and a
\* call with neither start nor end has the window [now - 30, now].
C5_DefaultWindow ==
    pc \in {"check_city", "check_period", "data_query", "done"} =>
        /\ start_date # <<>> /\ end_date # <<>>
        /\ (args.start_date = NoneArg /\ args.end_date = NoneArg) =>
              /\ now_read # <<>>
              /\ end_date = now_read
              /\ start_date = <<now_read[1] - 30>>

C5_Witness ==
    /\ pc = "check_city"
    /\ args.start_date = NoneArg /\ args.end_date = NoneArg
    /\ now_read # <<>> /\ start_date[1] < 0

\* C6: the table always has its initial content, and the data query
\* completes only after the city-existence and the period-count query of
\* the same request.
C6_ReadOnlyAndOrdered ==
    /\ store = store0
    /\ "data" \in Range(queries) => queries = AllQueries
    /\ df # <<>> => queries = AllQueries
    /\ \A i \in 1..Len(queries) : queries[i] = AllQueries[i]

C6_Witness ==
    /\ pc = "done" /\ queries = AllQueries /\ store # {} /\ store = store0

(***************************************************************************)
(* Properties of the classifier (SpecClassify)                             *)
(***************************************************************************)
\* C7: both classifiers give ("Good", "#00ff88") for every value from 0 to
\* 50, and "Moderate" for 51.
C7_GoodRange ==
    /\ (category # <<>> /\ 0 <= aqi_in /\ aqi_in <= 50 * Scale) =>
          category = <<"Good", "#00ff88">>
    /\ (db_category # <<>> /\ 0 <= aqi_in /\ aqi_in <= 50 * Scale) =>
          db_category = <<"Good", "#00ff88">>
    /\ (category # <<>> /\ aqi_in = 51 * Scale) => category[1] = "Moderate"
    /\ (db_category # <<>> /\ aqi_in = 51 * Scale) =>
          db_category[1] = "Moderate"

C7_Witness ==
    /\ aqi_in = 50 * Scale
    /\ category = <<"Good", "#00ff88">> /\ db_category = <<"Good", "#00ff88">>

\* C8: get_aqi_category gives ("Hazardous", "#880000") for every value
\* above 500.
C8_AboveTopHazardous ==
    (category # <<>> /\ aqi_in > 500 * Scale) =>
        category = <<"Hazardous", "#880000">>

C8_Witness ==
    /\ aqi_in = 500 * Scale + 1 /\ category # <<>>

\* C9: a value of at most 500 (whole or not, negative or not) is classified
\* Hazardous only when it is at least 301.
C9_HazardousOnlyFrom301 ==
    (category # <<>> /\ aqi_in <= 500 * Scale /\ category[1] = "Hazardous") =>
        aqi_in >= 301 * Scale

(***************************************************************************)
(* Properties of the converter (SpecPm25)                                  *)
(***************************************************************************)
\* C10: calculate_aqi_from_pm25 is non-decreasing: the value returned for a
\* concentration c2 is at least every value the function can return for a
\* smaller non-negative concentration c1 (both in hundredths; for c1 = c2
\* the two values are one and the same call's).
C10_Monotone ==
    (ppc = "converted" /\ pm25_in # <<>> /\ pm25_in[1] >= 0) =>
        \A c1 \in 0..(pm25_in[1] - 1) :
            \A a1 \in calculate_aqi_from_pm25(<<c1>>) : a1 <= aqi_out[1]

\* the end points of the seven breakpoint rows: concentration (hundredths)
\* and the AQI value the row gives it
RowEndpoints ==
    { <<0, 0>>, <<1200, 50>>, <<1210, 51>>, <<3540, 100>>,
      <<3550, 101>>, <<5540, 150>>, <<5550, 151>>, <<15040, 200>>,
      <<15050, 201>>, <<25040, 300>>, <<25050, 301>>, <<35040, 400>>,
      <<35050, 401>>, <<50040, 500>> }

\* C11: at both ends of each of the seven breakpoint rows the converter
\* returns the row's AQI bound: conc_lo gives aqi_lo and conc_hi gives
\* aqi_hi; 12.0 gives 50 and 12.1 gives 51.
C11_EndpointsExact ==
    (ppc = "converted" /\ pm25_in # <<>>) =>
        \A e \in RowEndpoints : pm25_in[1] = e[1] => aqi_out = <<e[2]>>

C11_Witness ==
    /\ ppc = "converted" /\ pm25_in = <<1210>> /\ aqi_out = <<51>>

\* C12: for a missing value and for every negative value the converter
\* returns 50, and the call is never without a result.
C12_MissingOrNegativeIs50 ==
    (pm25_in = <<>> \/ pm25_in[1] < 0) =>
        /\ ppc = "input" => ENABLED Convert
        /\ ppc = "converted" => aqi_out = <<50>>

C12_Witness ==
    /\ ppc = "converted" /\ pm25_in = <<0 - 500>> /\ aqi_out = <<50>>

\* C14: the converter has a result for every input, the result lies in
\* 0..500, and it is 500 for every concentration above 500.4.
C14_TotalInRange ==
    /\ ppc = "input" => ENABLED Convert
    /\ ppc = "converted" =>
          /\ aqi_out # <<>>
          /\ aqi_out[1] \in 0..500
          /\ (pm25_in # <<>> /\ pm25_in[1] > 50040) => aqi_out = <<500>>

C14_Witness ==
    /\ ppc = "converted" /\ pm25_in = <<50041>> /\ aqi_out = <<500>>

(***************************************************************************)
(* Reading normalizer: AirQualityAnalytics.process_real_time_data          *)
(***************************************************************************)
\* pollutant_columns
PollutantColumns == <<"pm25", "pm10", "no2", "so2", "co", "o3">>
PollutantKeys == Range(PollutantColumns)

\* a value of an input record: <<>> the key is absent (or null), a number
\* (hundredths for a concentration) or a text that is no number
NumField(c) == <<"num", c>>
TextField == <<"text">>

NormTimes == {0, TimeStep}
TsFields == {NoneArg, BadText} \cup {DateText(t) : t \in NormTimes}
AqiFieldPairs == { << <<>>, <<>> >>, << <<80>>, <<>> >>, << <<>>, <<80>> >> }
CityFields == {<<>>, <<"Delhi">>}
Pm25Fields == {<<>>, TextField, NumField(0 - 500), NumField(2000)}

\* the records an input collection is made of: the keys timestamp, aqiValue,
\* aqi_value and pm25 vary from record to record, city is c in all of them,
\* the other pollutant keys are absent
NormRecords(c) ==
    {[timestamp  |-> ts,
      aqiValue   |-> a[1],
      aqi_value  |-> a[2],
      city       |-> c,
      pollutants |-> [k \in PollutantKeys |-> IF k = "pm25" THEN p ELSE <<>>]] :
        ts \in TsFields, a \in AqiFieldPairs, p \in Pm25Fields}

Batches ==
    UNION {[1..n -> NormRecords(c)] : n \in 0..MaxRecords, c \in CityFields}

\* data_input: a record collection (a list, or JSON text or a JSON file that
\* holds one), or something json.loads / pd.DataFrame cannot take
Malformed == [ok |-> FALSE, data |-> <<>>]
NormInputs == {Malformed} \cup {[ok |-> TRUE, data |-> b] : b \in Batches}

\* "col in df.columns": a DataFrame made of dictionaries has a column for
\* every key some record has
HasKey(data, key) == \E i \in 1..Len(data) : data[i][key] # <<>>
HasPollutant(data, k) == \E i \in 1..Len(data) : data[i].pollutants[k] # <<>>

\* df = pd.DataFrame(data): one row per record, labelled by its position
DataFrame(data) ==
    [i \in 1..Len(data) |->
        [index      |-> i - 1,
         timestamp  |-> data[i].timestamp,
         aqiValue   |-> data[i].aqiValue,
         aqi_value  |-> data[i].aqi_value,
         city       |-> data[i].city,
         pollutants |-> data[i].pollutants]]

\* pd.to_datetime(.., errors='coerce') of one cell: NaT, written <<>>, for
\* a missing cell and for a text that is no date
to_datetime_coerce(cell) ==
    IF cell # <<>> /\ cell[1] = "date" THEN <<cell[2]>> ELSE <<>>

\* variant: every timestamp taken from the clock
with_timestamps_always_now(frame, has_ts, now) ==
    [i \in 1..Len(frame) |-> [frame[i] EXCEPT !.timestamp = <<now>>]]

\* lines 522-525
with_timestamps(frame, has_ts, now) ==
    [i \in 1..Len(frame) |->
        [frame[i] EXCEPT !.timestamp =
            IF has_ts THEN to_datetime_coerce(@) ELSE <<now>>]]

\* the order of sort_values: NaT comes after every timestamp
NotLater(a, b) == b = <<>> \/ (a # <<>> /\ a[1] <= b[1])

RECURSIVE insert_by_timestamp(_, _)
insert_by_timestamp(sq, r) ==
    IF sq = <<>> THEN <<r>>
    ELSE IF NotLater(sq[Len(sq)].timestamp, r.timestamp)
         THEN Append(sq, r)
         ELSE Append(insert_by_timestamp(SubSeq(sq, 1, Len(sq) - 1), r),
                     sq[Len(sq)])

\* variant: the frame left in the order of the input
sort_values_timestamp_unsorted(frame) == frame

\* df.sort_values('timestamp'); on frames this small the sort is an
\* insertion sort, which keeps rows of equal timestamp in their order
RECURSIVE sort_values_timestamp(_)
sort_values_timestamp(frame) ==
    IF frame = <<>> THEN <<>>
    ELSE insert_by_timestamp(
             sort_values_timestamp(SubSeq(frame, 1, Len(frame) - 1)),
             frame[Len(frame)])

\* "df['aqiValue'] = 50  # Default value" and the lambda's "else 50"
DefaultAqi == 50

\* the lambda of line 536 on one row, and line 538:
\* calculate_aqi_from_pm25(x) if pd.notnull(x) else 50
derived_aqi(row, has_pm25) ==
    IF has_pm25 /\ row.pollutants["pm25"] # <<>>
    THEN {<<a>> : a \in calculate_aqi_from_pm25(<<row.pollutants["pm25"][2]>>)}
    ELSE {<<DefaultAqi>>}

\* calculate_aqi_from_pm25 of a text: "pm25 < 0" raises TypeError
derive_raises(frame, has_pm25) ==
    has_pm25 /\ \E i \in 1..Len(frame) : frame[i].pollutants["pm25"] = TextField

\* the frames line 536 (or 538) can give
RECURSIVE with_derived_aqi(_, _)
with_derived_aqi(frame, has_pm25) ==
    IF frame = <<>> THEN {<<>>}
    ELSE LET last == frame[Len(frame)]
         IN  {Append(f, [last EXCEPT !.aqiValue = a]) :
                 f \in with_derived_aqi(SubSeq(frame, 1, Len(frame) - 1),
                                        has_pm25),
                 a \in derived_aqi(last, has_pm25)}

\* lines 539-540
with_city(frame, has_city) ==
    [i \in 1..Len(frame) |->
        [frame[i] EXCEPT !.city = IF has_city THEN @ ELSE <<"Unknown">>]]

\* get_aqi_category of a cell of column aqiValue; for NaN every comparison
\* of the loop is false and the return after the loop is taken
classify_cell(a) ==
    IF a = <<>> THEN <<"Hazardous", "#880000">>
    ELSE get_aqi_category(a[1] * Scale)

\* variant: a text counted as 0
to_numeric_coerce_zero(cell) ==
    IF cell = <<>> THEN <<>>
    ELSE IF cell[1] = "num" THEN <<cell[2]>> ELSE <<0>>

\* pd.to_numeric(.., errors='coerce') of one cell
to_numeric_coerce(cell) ==
    IF cell # <<>> /\ cell[1] = "num" THEN <<cell[2]>> ELSE <<>>

\* lines 542-552: the derived columns and the pollutant columns
finish_frame(frame, data) ==
    [i \in 1..Len(frame) |->
        [index        |-> frame[i].index,
         timestamp    |-> frame[i].timestamp,
         aqiValue     |-> frame[i].aqiValue,
         aqi_value    |-> frame[i].aqi_value,
         city         |-> frame[i].city,
         aqi_category |-> classify_cell(frame[i].aqiValue)[1],
         aqi_color    |-> classify_cell(frame[i].aqiValue)[2],
         pollutants   |->
            [k \in PollutantKeys |->
                IF HasPollutant(data, k)
                THEN to_numeric_coerce(frame[i].pollutants[k])
                ELSE <<>>]]]

\* the outcomes of process_real_time_data(inp) when the clock reads now
process_real_time_data(inp, now) ==
    IF ~inp.ok
    THEN {[ok |-> FALSE, df |-> <<>>,
           err |-> "Error processing real-time data: input is no record list"]}
    ELSE LET data == inp.data
             sorted == sort_values_timestamp(
                           with_timestamps(DataFrame(data),
                                           HasKey(data, "timestamp"), now))
             has_pm25 == HasPollutant(data, "pm25")
         IN  IF ~HasKey(data, "aqiValue") /\ derive_raises(sorted, has_pm25)
             THEN {[ok |-> FALSE, df |-> <<>>,
                    err |-> "Error processing real-time data: TypeError"]}
             ELSE {[ok |-> TRUE, err |-> "",
                    df |-> finish_frame(with_city(f, HasKey(data, "city")),
                                        data)] :
                     f \in IF HasKey(data, "aqiValue") THEN {sorted}
                           ELSE with_derived_aqi(sorted, has_pm25)}

NormalizeInit ==
    /\ npc = "input" /\ n_input \in NormInputs
    /\ n_now = <<>> /\ n_df = <<>> /\ n_err = ""

\* one call of process_real_time_data; pd.to_datetime('now') is read only
\* when no record has a timestamp
Normalize ==
    /\ npc = "input"
    /\ \E now \in NormTimes :
          /\ n_now' = IF n_input.ok /\ ~HasKey(n_input.data, "timestamp")
                      THEN <<now>> ELSE <<>>
          /\ \E out \in process_real_time_data(n_input, now) :
                /\ npc' = IF out.ok THEN "done" ELSE "error"
                /\ n_df' = out.df
                /\ n_err' = out.err
    /\ UNCHANGED n_input

InitNormalize ==
    /\ store = {} /\ store0 = {} /\ DbIdle
    /\ ClIdle
    /\ PmIdle
    /\ NormalizeInit
    /\ OthersIdle

NextNormalize ==
    Normalize /\ UNCHANGED <<dbvars, clvars, pmvars, stvars, plvars, svvars>>

SpecNormalize == InitNormalize /\ [][NextNormalize]_vars

(***************************************************************************)
(* Properties of the reading normalizer (SpecNormalize)                    *)
(***************************************************************************)
\* the input record a row of the returned frame was made from
RecordOf(row) == n_input.data[row.index + 1]

\* the row's AQI was defaulted: no record has key aqiValue and the row's
\* record has no PM2.5 concentration or a negative one
Defaulted(row) ==
    /\ ~HasKey(n_input.data, "aqiValue")
    /\ LET p == RecordOf(row).pollutants["pm25"]
       IN  p = <<>> \/ (p[1] = "num" /\ p[2] < 0)

\* C13 as stated: a reading whose AQI was defaulted to 50 for a missing or
\* negative PM2.5 concentration is classified "Moderate".
C13_FallbackIsModerate ==
    npc = "done" =>
        \A i \in 1..Len(n_df) :
            Defaulted(n_df[i]) => n_df[i].aqi_category = "Moderate"

\* C13 amended: a reading whose AQI was defaulted for a missing or negative
\* PM2.5 concentration has AQI 50 and is classified "Good".
C13_FallbackIsGood ==
    npc = "done" =>
        \A i \in 1..Len(n_df) :
            Defaulted(n_df[i]) =>
                /\ n_df[i].aqiValue = <<DefaultAqi>>
                /\ n_df[i].aqi_category = "Good"

C13_Witness ==
    /\ npc = "done" /\ Len(n_df) = 2
    /\ Defaulted(n_df[1]) /\ RecordOf(n_df[1]).pollutants["pm25"] = <<>>
    /\ Defaulted(n_df[2])
    /\ RecordOf(n_df[2]).pollutants["pm25"] = NumField(0 - 500)
    /\ n_df[1].aqi_category = "Good" /\ n_df[2].aqi_category = "Good"

\* C15: the returned readings are the input's readings ordered by timestamp
\* ascending, whatever the input order: no reading's timestamp is earlier
\* than that of a reading before it (readings without a time come last).
C15_SortedByTimestamp ==
    npc = "done" =>
        /\ Len(n_df) = Len(n_input.data)
        /\ {n_df[i].index : i \in 1..Len(n_df)} = 0..(Len(n_df) - 1)
        /\ \A i, j \in 1..Len(n_df) :
              i < j =>
                /\ NotLater(n_df[i].timestamp, n_df[j].timestamp)
                /\ ~(/\ n_df[i].timestamp # <<>> /\ n_df[j].timestamp # <<>>
                     /\ n_df[j].timestamp[1] < n_df[i].timestamp[1])

C15_Witness ==
    /\ npc = "done" /\ Len(n_df) = 2
    /\ n_input.data[1].timestamp = DateText(TimeStep)
    /\ n_input.data[2].timestamp = DateText(0)
    /\ n_df[1].index = 1 /\ n_df[1].timestamp = <<0>>
    /\ n_df[2].index = 0 /\ n_df[2].timestamp = <<TimeStep>>

\* C16: when one record of a batch has a timestamp text that cannot be
\* parsed, the call does not raise and that record's timestamp in the output
\* is the ingestion time, a valid point in time and not a not-a-time marker.
C16_BadTimestampIsIngestionTime ==
    (/\ n_input.ok
     /\ \E i \in 1..Len(n_input.data) :
           /\ n_input.data[i].timestamp = BadText
           /\ \A j \in 1..Len(n_input.data) :
                 /\ j # i => n_input.data[j].timestamp # BadText
                 /\ n_input.data[j].pollutants["pm25"] # TextField)
    => /\ npc # "error"
       /\ npc = "done" =>
             \A i \in 1..Len(n_df) :
                 RecordOf(n_df[i]).timestamp = BadText =>
                     n_df[i].timestamp # <<>>

\* C17: for each record without an AQI value the normalized aqi value is
\* calculate_aqi_from_pm25 of that record's pm25 when it has a PM2.5
\* concentration and 50 otherwise, also in a batch where other records carry
\* an AQI value; no normalized reading is left without an AQI value.
C17_DerivedPerRecord ==
    npc = "done" =>
        \A i \in 1..Len(n_df) :
            LET r == RecordOf(n_df[i])
                p == r.pollutants["pm25"]
            IN  /\ n_df[i].aqiValue # <<>>
                /\ (r.aqiValue = <<>> /\ r.aqi_value = <<>>) =>
                      n_df[i].aqiValue \in
                          IF p # <<>> /\ p[1] = "num"
                          THEN {<<a>> : a \in calculate_aqi_from_pm25(<<p[2]>>)}
                          ELSE {<<DefaultAqi>>}

\* C18: an AQI value supplied in an input record under either accepted key,
\* aqiValue or aqi_value, is that reading's AQI after normalization; it is
\* never replaced by a PM2.5-derived value or by the default 50.
C18_SuppliedAqiKept ==
    npc = "done" =>
        \A i \in 1..Len(n_df) :
            LET r == RecordOf(n_df[i])
            IN  /\ r.aqiValue # <<>> => n_df[i].aqiValue = r.aqiValue
                /\ r.aqi_value # <<>> => n_df[i].aqiValue = r.aqi_value

C20_OnlyMalformedRaises == npc = "error" => ~n_input.ok

(***************************************************************************)
(* Rounding of the converter (SpecPm25)                                    *)
(***************************************************************************)
\* C25: within a breakpoint row the interpolated value is rounded to the
\* nearest integer with exact halves rounded up: whenever it is exactly
\* k + 0.5 for an integer k, the result is k + 1, for even and odd k alike.
C25_HalfRoundsUp ==
    (ppc = "converted" /\ pm25_in # <<>>) =>
        \A i \in 1..Len(breakpoints) :
            LET lo == TenthsToHundredths(breakpoints[i][1])
                hi == TenthsToHundredths(breakpoints[i][2])
                num == (breakpoints[i][4] - breakpoints[i][3]) * (pm25_in[1] - lo)
                den == hi - lo
            IN  (lo <= pm25_in[1] /\ pm25_in[1] <= hi /\ 2 * (num % den) = den)
                    => aqi_out = <<breakpoints[i][3] + (num \div den) + 1>>

(***************************************************************************)
(* The database path beside another client (SpecConcurrent), and inverted  *)
(* windows (Spec)                                                          *)
(***************************************************************************)
NoDataError == "Database query failed: No data found for city"

\* C27: fetch_data_from_database never returns an empty reading set: when
\* it returns, scenario is 1 or 2 and df has a reading; also when rows of
\* the city are removed by another client between the availability check
\* and the data query, where the call ends in the "No data found" error.
C27_NeverReturnsEmpty ==
    /\ pc = "done" => /\ scenario \in {1, 2}
                      /\ df # <<>>
                      /\ queries = AllQueries
    /\ (pc \in {"done", "error"} /\ queries = AllQueries) =>
          IF data_query(store, args.city_name, scenario,
                        start_date[1], end_date[1]) = {}
          THEN pc = "error" /\ err = NoDataError /\ df = <<>>
          ELSE pc = "done"

C27_Witness ==
    /\ pc = "error" /\ err = NoDataError
    /\ scenario = 1 /\ data_info.records_in_period = 2
    /\ queries = AllQueries /\ store = {}

StorageErrors ==
    {"Database query failed: storage",
     "Database query failed: Error checking data availability"}

\* C28: for a known city and a window whose start is later than its end
\* (given so, or a future start with the end defaulted to now) the resolver
\* never gives scenario 1 and the request never ends in an error of its
\* own: the scenario is 2 and the fetch returns all stored readings of the
\* city.
C28_InvertedWindowIsScenario2 ==
    (/\ pc \notin {"idle"} /\ start_date # <<>> /\ end_date # <<>>
     /\ start_date[1] > end_date[1]
     /\ KnownCityRows # {}) =>
        /\ scenario \in {0, 2}
        /\ pc = "error" => err \in StorageErrors
        /\ pc = "done" =>
              /\ scenario = 2
              /\ {AsRow(x) : x \in Range(df)} = KnownCityRows
              /\ Len(df) = Cardinality(KnownCityRows)

C28_Witness ==
    /\ pc = "done" /\ scenario = 2
    /\ args.end_date = NoneArg /\ now_read = <<0>>
    /\ start_date = <<2 * TimeStep>> /\ end_date = <<0>>
    /\ \E i \in 1..Len(df) : df[i].timestamp = TimeStep

(***************************************************************************)
(* Statistics aggregator: calculate_statistics of both classes.  In the    *)
(* normalizer and the aggregator a timestamp t is the hour t after the     *)
(* start of day 0.  A missing number (NaN, NaT, None) is <<>>.             *)
(***************************************************************************)
HoursPerDay == 24

\* the cells of a column that are not null, in row order
RECURSIVE dropna(_)
dropna(cells) ==
    IF cells = <<>> THEN <<>>
    ELSE IF cells[1] = <<>> THEN dropna(Tail(cells))
         ELSE <<cells[1][1]>> \o dropna(Tail(cells))

RECURSIVE Sum(_)
Sum(sq) == IF sq = <<>> THEN 0 ELSE sq[1] + Sum(Tail(sq))

Squares(sq) == [i \in 1..Len(sq) |-> sq[i] * sq[i]]

\* round(num / den), a half taken to the even neighbour
RoundHalfEven(num, den) ==
    LET q == num \div den
        r == num % den
    IN  IF 2 * r < den THEN q
        ELSE IF 2 * r > den THEN q + 1
        ELSE IF q % 2 = 0 THEN q ELSE q + 1

\* the largest s in lo..hi with s * s <= n (lo * lo <= n < (hi + 1)^2)
RECURSIVE ISqrt(_, _, _)
ISqrt(n, lo, hi) ==
    IF lo = hi THEN lo
    ELSE LET mid == (lo + hi + 1) \div 2
         IN  IF mid * mid <= n THEN ISqrt(n, mid, hi) ELSE ISqrt(n, lo, mid - 1)

\* round(sqrt(num / den), 2) in hundredths: the r with
\* 2r - 1 <= sqrt(40000 num / den) < 2r + 1
RoundedRoot(num, den) ==
    (ISqrt((4 * Scale * Scale * num) \div den, 0, 46340) + 1) \div 2

\* round(series.mean(), 2) of a column whose values count unit hundredths
\* each (unit = Scale for AQI values, 1 for concentrations); mean() skips
\* null cells and is NaN when none is left
mean_round2(cells, unit) ==
    LET v == dropna(cells)
    IN  IF v = <<>> THEN <<>>
        ELSE <<RoundHalfEven(unit * Sum(v), Len(v))>>

\* round(series.std(ddof), 2) of integer cells, in hundredths; NaN when
\* fewer than ddof + 1 cells are left.  pandas' std() has ddof = 1
std_round2(cells, ddof) ==
    LET v == dropna(cells)
        n == Len(v)
    IN  IF n <= ddof THEN <<>>
        ELSE <<RoundedRoot(n * Sum(Squares(v)) - Sum(v) * Sum(v),
                           n * (n - ddof))>>

SeqMax(v) == Max(Range(v))
SeqMin(v) == Min(Range(v))

\* series.idxmax(): the first row that holds the largest non-null value
idxmax(cells) ==
    LET m == SeqMax(dropna(cells))
    IN  Min({i \in 1..Len(cells) : cells[i] = <<m>>})

\* Timestamp.hour; NaT.hour is NaN
hour_of(ts) == IF ts = <<>> THEN <<>> ELSE <<ts[1] % HoursPerDay>>

\* value_counts().to_dict(): the categories that occur, with their counts
value_counts(cats) ==
    [c \in Range(cats) |-> Cardinality({i \in 1..Len(cats) : cats[i] = c})]

\* variant: the two bounds 0.5 and -0.5 counted to the outer labels
trend_label_inclusive(y) ==
    LET n == Len(y)
        x == [i \in 1..n |-> i - 1]
        num == n * Sum([i \in 1..n |-> x[i] * y[i]]) - Sum(x) * Sum(y)
        den == n * Sum(Squares(x)) - Sum(x) * Sum(x)
    IN  IF 2 * num >= den THEN "Increasing"
        ELSE IF 2 * num <= 0 - den THEN "Decreasing"
        ELSE "Stable"

\* np.polyfit(range(n), y, 1)[0] as the exact least-squares slope
\* num / den (den > 0 for n > 1), compared with 0.5 and -0.5
trend_label(y) ==
    LET n == Len(y)
        x == [i \in 1..n |-> i - 1]
        num == n * Sum([i \in 1..n |-> x[i] * y[i]]) - Sum(x) * Sum(y)
        den == n * Sum(Squares(x)) - Sum(x) * Sum(x)
    IN  IF 2 * num > den THEN "Increasing"
        ELSE IF 2 * num < 0 - den THEN "Decreasing"
        ELSE "Stable"

Column(frame, name) == [i \in 1..Len(frame) |-> frame[i][name]]
PollutantColumn(frame, k) == [i \in 1..Len(frame) |-> frame[i].pollutants[k]]

StatsError == [ok |-> FALSE, stats |-> <<>>]

\* the statements of calculate_statistics that raise: int() of the NaN that
\* max() gives without a non-null value, strftime of the NaT that min()
\* gives without a timestamp, and np.polyfit on a column with a NaN
stats_raises(aqi, ts) ==
    \/ dropna(aqi) = <<>>
    \/ dropna(ts) = <<>>
    \/ Len(aqi) > 1 /\ \E i \in 1..Len(aqi) : aqi[i] = <<>>

\* variant: an empty frame gives a record of zeros instead of an error
calculate_statistics_zero_for_empty(frame) ==
    LET aqi == Column(frame, "aqiValue")
        ts == Column(frame, "timestamp")
    IN  IF frame = <<>>
        THEN [ok |-> TRUE,
              stats |-> [total_records |-> 0, trend |-> "Insufficient data"]]
        ELSE IF stats_raises(aqi, ts) THEN StatsError
        ELSE [ok |-> TRUE,
              stats |-> [total_records |-> Len(frame),
                         trend |-> IF Len(frame) > 1
                                   THEN trend_label(dropna(aqi))
                                   ELSE "Insufficient data"]]

\* AirQualityAnalytics.calculate_statistics(df): the dictionary returned,
\* or the exception.  Averages, deviation and duration are in hundredths.
calculate_statistics(frame) ==
    LET aqi == Column(frame, "aqiValue")
        ts == Column(frame, "timestamp")
    IN  IF stats_raises(aqi, ts) THEN StatsError
        ELSE [ok |-> TRUE,
              stats |->
                [total_records |-> Len(frame),
                 avg_aqi |-> mean_round2(aqi, Scale),
                 max_aqi |-> SeqMax(dropna(aqi)),
                 min_aqi |-> SeqMin(dropna(aqi)),
                 std_aqi |-> std_round2(aqi, 1),
                 start_date |-> SeqMin(dropna(ts)),
                 end_date |-> SeqMax(dropna(ts)),
                 duration_hours |->
                    Scale * (SeqMax(dropna(ts)) - SeqMin(dropna(ts))),
                 category_distribution |->
                    value_counts(Column(frame, "aqi_category")),
                 pollutant_averages |->
                    [k \in PollutantKeys |->
                        mean_round2(PollutantColumn(frame, k), 1)],
                 peak_pollution_hour |-> hour_of(ts[idxmax(aqi)]),
                 trend |-> IF Len(frame) > 1 THEN trend_label(dropna(aqi))
                           ELSE "Insufficient data"]]

\* variant: the deviation taken over N instead of N - 1
db_calculate_statistics_population_std(frame, sc, info) ==
    LET aqi == Column(frame, "aqi_value")
        ts == Column(frame, "timestamp")
    IN  IF stats_raises(aqi, ts) THEN StatsError
        ELSE [ok |-> TRUE,
              stats |->
                [scenario |-> sc,
                 data_info |-> info,
                 total_records |-> Len(frame),
                 avg_aqi |-> mean_round2(aqi, Scale),
                 max_aqi |-> SeqMax(dropna(aqi)),
                 min_aqi |-> SeqMin(dropna(aqi)),
                 std_aqi |-> std_round2(aqi, 0),
                 start_date |-> SeqMin(dropna(ts)),
                 end_date |-> SeqMax(dropna(ts)),
                 duration_hours |->
                    Scale * (SeqMax(dropna(ts)) - SeqMin(dropna(ts))),
                 category_distribution |->
                    value_counts(Column(frame, "aqi_category")),
                 pollutant_averages |->
                    [k \in PollutantKeys |->
                        mean_round2(PollutantColumn(frame, k), 1)],
                 peak_pollution_hour |-> hour_of(ts[idxmax(aqi)]),
                 trend |-> IF Len(frame) > 1 THEN trend_label(dropna(aqi))
                           ELSE "Insufficient data"]]

\* DatabaseAirQualityAnalytics.calculate_statistics(df, scenario, data_info)
db_calculate_statistics(frame, sc, info) ==
    LET aqi == Column(frame, "aqi_value")
        ts == Column(frame, "timestamp")
    IN  IF stats_raises(aqi, ts) THEN StatsError
        ELSE [ok |-> TRUE,
              stats |->
                [scenario |-> sc,
                 data_info |-> info,
                 total_records |-> Len(frame),
                 avg_aqi |-> mean_round2(aqi, Scale),
                 max_aqi |-> SeqMax(dropna(aqi)),
                 min_aqi |-> SeqMin(dropna(aqi)),
                 std_aqi |-> std_round2(aqi, 1),
                 start_date |-> SeqMin(dropna(ts)),
                 end_date |-> SeqMax(dropna(ts)),
                 duration_hours |->
                    Scale * (SeqMax(dropna(ts)) - SeqMin(dropna(ts))),
                 category_distribution |->
                    value_counts(Column(frame, "aqi_category")),
                 pollutant_averages |->
                    [k \in PollutantKeys |->
                        mean_round2(PollutantColumn(frame, k), 1)],
                 peak_pollution_hour |-> hour_of(ts[idxmax(aqi)]),
                 trend |-> IF Len(frame) > 1 THEN trend_label(dropna(aqi))
                           ELSE "Insufficient data"]]

(***************************************************************************)
(* Aggregator runs: one reading sequence, given to both implementations    *)
(***************************************************************************)
StatHours == {5, HoursPerDay + 6}
StatAqi == {50, 51, 120}
StatPm25 == {<<>>, <<1000>>}

\* a reading: the hour of its timestamp, its AQI value and its pm25; a
\* reading without a timestamp or without an AQI value is what the
\* normalizer leaves of a record with an unparseable timestamp, or of one
\* without aqiValue beside records that have it
StatReadings ==
    {[timestamp |-> ts, aqi |-> <<a>>, pm25 |-> p] :
        ts \in {<<>>} \cup {<<h>> : h \in StatHours}, a \in StatAqi,
        p \in StatPm25}
    \cup {[timestamp |-> <<5>>, aqi |-> <<>>, pm25 |-> <<>>]}

\* the sequences both paths hand to calculate_statistics are sorted by
\* timestamp, readings without one last
StatSequences ==
    UNION {{f \in [1..n -> StatReadings] :
               \A i \in 1..(n - 1) :
                   NotLater(f[i].timestamp, f[i + 1].timestamp)} :
           n \in 0..MaxReadings}

\* the frame process_real_time_data makes of the readings
file_frame(readings) ==
    [i \in 1..Len(readings) |->
        [timestamp    |-> readings[i].timestamp,
         aqiValue     |-> readings[i].aqi,
         aqi_category |-> classify_cell(readings[i].aqi)[1],
         pollutants   |-> [k \in PollutantKeys |->
                              IF k = "pm25" THEN readings[i].pm25 ELSE <<>>]]]

\* the frame process_database_data makes of the readings
db_frame(readings) ==
    [i \in 1..Len(readings) |->
        [timestamp    |-> readings[i].timestamp,
         aqi_value    |-> readings[i].aqi,
         aqi_category |-> IF readings[i].aqi = <<>> THEN "Hazardous"
                          ELSE db_get_aqi_category(readings[i].aqi[1] * Scale)[1],
         pollutants   |-> [k \in PollutantKeys |->
                              IF k = "pm25" THEN readings[i].pm25 ELSE <<>>]]]

StatsInit ==
    /\ spc = "input" /\ s_readings \in StatSequences
    /\ s_stats = <<>> /\ s_db_stats = <<>>

\* analytics.calculate_statistics(df)
Aggregate ==
    /\ spc = "input"
    /\ s_stats' = calculate_statistics(file_frame(s_readings))
    /\ spc' = "file_done"
    /\ UNCHANGED <<s_readings, s_db_stats>>

\* analytics.calculate_statistics(df, scenario, data_info) on the same
\* readings
DbAggregate ==
    /\ spc = "file_done"
    /\ \E sc \in {1, 2} :
          s_db_stats' = db_calculate_statistics(db_frame(s_readings), sc,
                                                [message |-> "data_info"])
    /\ spc' = "done"
    /\ UNCHANGED <<s_readings, s_stats>>

InitStats ==
    /\ store = {} /\ store0 = {} /\ DbIdle
    /\ ClIdle /\ PmIdle /\ NmIdle
    /\ StatsInit /\ PlIdle /\ SvIdle

NextStats ==
    \/ Aggregate /\ UNCHANGED <<dbvars, clvars, pmvars, nmvars, plvars, svvars>>
    \/ DbAggregate /\ UNCHANGED <<dbvars, clvars, pmvars, nmvars, plvars, svvars>>

SpecStats == InitStats /\ [][NextStats]_vars

(***************************************************************************)
(* Properties of the aggregator (SpecStats)                                *)
(***************************************************************************)
\* the AQI values and the timestamps of the readings, in sequence order
AqiCells == [i \in 1..Len(s_readings) |-> s_readings[i].aqi]
TsCells == [i \in 1..Len(s_readings) |-> s_readings[i].timestamp]
FileReturned == s_stats # <<>> /\ s_stats.ok

\* C21: calculate_statistics on an empty reading sequence (such as the
\* normalizer returns for an empty record list) ends in an error and
\* returns no statistics record; no record has total_records = 0.
C21_EmptyIsError ==
    /\ (s_readings = <<>> /\ spc # "input") =>
          /\ ~s_stats.ok /\ s_stats.stats = <<>>
          /\ spc = "done" => (~s_db_stats.ok /\ s_db_stats.stats = <<>>)
    /\ FileReturned =>
          /\ s_stats.stats.total_records = Len(s_readings)
          /\ s_stats.stats.total_records >= 1

C21_Witness ==
    /\ spc = "done" /\ s_readings = <<>>
    /\ s_stats = StatsError /\ s_db_stats = StatsError

\* n * n times the covariance sum and the variance sum of the positions
\* 0, 1, .. and the values y: the least-squares slope is their quotient
SlopeNum(y) ==
    Sum([i \in 1..Len(y) |->
            (Len(y) * (i - 1) - Sum([j \in 1..Len(y) |-> j - 1]))
            * (Len(y) * y[i] - Sum(y))])
SlopeDen(y) ==
    Sum([i \in 1..Len(y) |->
            (Len(y) * (i - 1) - Sum([j \in 1..Len(y) |-> j - 1]))
            * (Len(y) * (i - 1) - Sum([j \in 1..Len(y) |-> j - 1]))])

C23_PopulationStd ==
    FileReturned =>
        /\ s_stats.stats.std_aqi # <<>>
        /\ s_stats.stats.std_aqi = std_round2(AqiCells, 0)

\* C26: peak_pollution_hour is an integer in 0..23, the hour of day of the
\* timestamp of the first reading, in the timestamp-sorted sequence, whose
\* AQI value is the maximum of the sequence.
C26_PeakHourOfFirstMaximum ==
    FileReturned =>
        LET peak == s_stats.stats.peak_pollution_hour
        IN  /\ peak # <<>>
            /\ peak[1] \in 0..23
            /\ \E i \in 1..Len(s_readings) :
                  /\ AqiCells[i] = <<s_stats.stats.max_aqi>>
                  /\ \A j \in 1..(i - 1) : AqiCells[j] # AqiCells[i]
                  /\ TsCells[i] # <<>>
                  /\ peak[1] = TsCells[i][1] % HoursPerDay

SharedFields ==
    {"total_records", "avg_aqi", "max_aqi", "min_aqi", "std_aqi",
     "start_date", "end_date", "duration_hours", "category_distribution",
     "pollutant_averages", "peak_pollution_hour", "trend"}

\* C29: the two implementations agree: both get_aqi_category give the same
\* (category, colour) for every AQI value, and for the same ordered
\* readings both calculate_statistics fail together or give the same value
\* for every shared field, the database variant only adding scenario and
\* data_info.
C29_PathsAgree ==
    /\ (spc = "done" /\ s_readings = <<>>) =>
          \A v \in AqiInputs : get_aqi_category(v) = db_get_aqi_category(v)
    /\ spc = "done" =>
          /\ \A i \in 1..Len(s_readings) :
                file_frame(s_readings)[i].aqi_category
                    = db_frame(s_readings)[i].aqi_category
          /\ s_stats.ok = s_db_stats.ok
          /\ s_stats.ok =>
                /\ DOMAIN s_stats.stats = SharedFields
                /\ DOMAIN s_db_stats.stats
                      = SharedFields \cup {"scenario", "data_info"}
                /\ \A f \in SharedFields :
                      s_stats.stats[f] = s_db_stats.stats[f]

C29_Witness ==
    /\ spc = "done" /\ s_stats.ok /\ s_db_stats.ok
    /\ Len(s_readings) = 3
    /\ s_stats.stats.std_aqi = <<4013>>
    /\ s_db_stats.stats.std_aqi = <<4013>>
    /\ s_db_stats.stats.scenario = 2

(***************************************************************************)
(* Operation "stats" of main: normalize, then aggregate; run twice on the  *)
(* same data_input                                                         *)
(***************************************************************************)
\* the records of the input: timestamp, aqiValue and pm25 vary
PipelineRecords ==
    {r \in NormRecords(<<>>) :
        /\ r.aqi_value = <<>>
        /\ r.pollutants["pm25"] \in {<<>>, NumField(2000)}}

PipelineInputs ==
    {Malformed} \cup
    {[ok |-> TRUE, data |-> b] :
        b \in UNION {[1..n -> PipelineRecords] : n \in 0..MaxRecords}}

\* df = analytics.process_real_time_data(data_input)
\* stats = analytics.calculate_statistics(df)
stats_operation(inp, now) ==
    {IF out.ok THEN calculate_statistics(out.df) ELSE StatsError :
        out \in process_real_time_data(inp, now)}

PipelineInit ==
    /\ rpc = "input" /\ r_input \in PipelineInputs
    /\ r_now = <<>> /\ r_out = <<>>

\* one run of the operation; the clock is read only when no record has a
\* timestamp and may show any time
RunStats ==
    /\ rpc \in {"input", "once"}
    /\ \E now \in NormTimes :
          /\ r_now' = Append(r_now,
                        IF r_input.ok /\ ~HasKey(r_input.data, "timestamp")
                        THEN <<now>> ELSE <<>>)
          /\ \E o \in stats_operation(r_input, now) : r_out' = Append(r_out, o)
    /\ rpc' = IF rpc = "input" THEN "once" ELSE "twice"
    /\ UNCHANGED r_input

InitPipeline ==
    /\ store = {} /\ store0 = {} /\ DbIdle
    /\ ClIdle /\ PmIdle /\ NmIdle
    /\ StIdle /\ PipelineInit /\ SvIdle

NextPipeline ==
    RunStats /\ UNCHANGED <<dbvars, clvars, pmvars, nmvars, stvars, svvars>>

SpecPipeline == InitPipeline /\ [][NextPipeline]_vars

\* every record of the input has a timestamp that parses
AllTimestampsValid ==
    /\ r_input.ok
    /\ \A i \in 1..Len(r_input.data) :
          /\ r_input.data[i].timestamp # <<>>
          /\ r_input.data[i].timestamp[1] = "date"

Packages == {"pandas", "numpy", "reportlab"}

CallerArgv == "service_manager.py run"
AnalyticsArgv == "database_analytics.py"

\* what one call of setup_dependencies did
SetupRecord(ret, version_checked, found, attempted, failed, touched) ==
    [returned        |-> ret,
     version_checked |-> version_checked,
     found           |-> found,
     attempted       |-> attempted,
     failed          |-> failed,
     touched         |-> touched]

\* variant: the marker written as soon as the missing packages are known
setup_dependencies_touch_early(marker, python_ok, importable, installs_ok, touch_ok) ==
    IF marker
    THEN SetupRecord("True", FALSE, {}, {}, {}, FALSE)
    ELSE IF ~python_ok
    THEN SetupRecord("False", TRUE, {}, {}, {}, FALSE)
    ELSE LET missing == Packages \ importable
             failed == missing \ installs_ok
         IN  IF ~touch_ok
             THEN SetupRecord("raised", TRUE, importable, {}, {}, FALSE)
             ELSE IF failed # {}
             THEN SetupRecord("False", TRUE, importable, missing, failed, TRUE)
             ELSE SetupRecord("True", TRUE, importable, missing, {}, TRUE)

\* setup_dependencies() with the marker, the interpreter and the importable
\* packages as it finds them; installs_ok are the packages pip installs
\* with return code 0, touch_ok says whether the marker can be written
setup_dependencies(marker, python_ok, importable, installs_ok, touch_ok) ==
    IF marker
    THEN SetupRecord("True", FALSE, {}, {}, {}, FALSE)
    ELSE IF ~python_ok
    THEN SetupRecord("False", TRUE, {}, {}, {}, FALSE)
    ELSE LET missing == Packages \ importable
             failed == missing \ installs_ok
         IN  IF missing = {}
             THEN IF touch_ok
                  THEN SetupRecord("True", TRUE, importable, {}, {}, TRUE)
                  ELSE SetupRecord("raised", TRUE, importable, {}, {}, FALSE)
             ELSE IF failed # {}
             THEN SetupRecord("False", TRUE, importable, missing, failed, FALSE)
             ELSE IF touch_ok
                  THEN SetupRecord("True", TRUE, importable, missing, {}, TRUE)
                  ELSE SetupRecord("raised", TRUE, importable, missing, {},
                                   FALSE)

\* the record kept of the last call of the manager
CallRecord(op, marker_before, setup, main_invoked, result) ==
    [op |-> op, marker_before |-> marker_before, setup |-> setup,
     main_invoked |-> main_invoked, result |-> result]

NoCall == CallRecord("none", FALSE,
                     SetupRecord("none", FALSE, {}, {}, {}, FALSE),
                     FALSE, "none")

ServiceInit ==
    /\ sv_pc = "idle"
    /\ sv_marker \in BOOLEAN
    /\ sv_python_ok \in BOOLEAN
    /\ sv_importable \in SUBSET Packages
    /\ sv_argv = CallerArgv
    /\ sv_calls = 0
    /\ sv_last = NoCall

\* command "setup": one call of setup_dependencies
SetupDependencies ==
    /\ sv_pc = "idle" /\ sv_calls < MaxCalls
    /\ \E installs_ok \in SUBSET (Packages \ sv_importable),
          touch_ok \in BOOLEAN :
          LET out == setup_dependencies(sv_marker, sv_python_ok,
                                        sv_importable, installs_ok, touch_ok)
          IN  /\ sv_marker' = (sv_marker \/ out.touched)
              /\ sv_importable' = sv_importable \cup
                                     (out.attempted \cap installs_ok)
              /\ sv_last' = CallRecord("setup", sv_marker, out, FALSE,
                                       out.returned)
    /\ sv_calls' = sv_calls + 1
    /\ UNCHANGED <<sv_pc, sv_python_ok, sv_argv>>

\* run_analytics_service up to the call of analytics_main: lines 144-157
RunBegin ==
    /\ sv_pc = "idle" /\ sv_calls < MaxCalls
    /\ \E installs_ok \in SUBSET (Packages \ sv_importable),
          touch_ok \in BOOLEAN, import_ok \in BOOLEAN :
          LET out == setup_dependencies(sv_marker, sv_python_ok,
                                        sv_importable, installs_ok, touch_ok)
          IN  /\ sv_marker' = (sv_marker \/ out.touched)
              /\ sv_importable' = sv_importable \cup
                                     (out.attempted \cap installs_ok)
              /\ IF out.returned = "True" /\ import_ok
                 THEN /\ sv_argv' = AnalyticsArgv
                      /\ sv_pc' = "in_main"
                      /\ sv_last' = CallRecord("run", sv_marker, out, TRUE,
                                               "running")
                 ELSE /\ sv_last' = CallRecord("run", sv_marker, out, FALSE,
                                               "False")
                      /\ UNCHANGED <<sv_argv, sv_pc>>
    /\ sv_calls' = sv_calls + 1
    /\ UNCHANGED sv_python_ok

\* variant: sys.argv put back only after analytics_main returned
MainEnds_restore_on_return_only ==
    /\ sv_pc = "in_main"
    /\ \E outcome \in {"returned", "exception", "exit"} :
          /\ sv_last' = [sv_last EXCEPT !.result =
                            IF outcome = "returned" THEN "True"
                            ELSE IF outcome = "exception" THEN "False"
                            ELSE "SystemExit"]
          /\ sv_argv' = IF outcome = "returned" THEN CallerArgv ELSE sv_argv
    /\ sv_pc' = "idle"
    /\ UNCHANGED <<sv_marker, sv_python_ok, sv_importable, sv_calls>>

\* analytics_main() returns, raises an Exception, or leaves by sys.exit;
\* the finally clause of line 159 runs in each case
MainEnds ==
    /\ sv_pc = "in_main"
    /\ \E outcome \in {"returned", "exception", "exit"} :
          sv_last' = [sv_last EXCEPT !.result =
                         IF outcome = "returned" THEN "True"
                         ELSE IF outcome = "exception" THEN "False"
                         ELSE "SystemExit"]
    /\ sv_argv' = CallerArgv
    /\ sv_pc' = "idle"
    /\ UNCHANGED <<sv_marker, sv_python_ok, sv_importable, sv_calls>>

InitService ==
    /\ store = {} /\ store0 = {} /\ DbIdle
    /\ ClIdle /\ PmIdle /\ NmIdle
    /\ StIdle /\ PlIdle /\ ServiceInit

NextService ==
    \/ SetupDependencies /\ UNCHANGED <<dbvars, clvars, pmvars, nmvars, stvars, plvars>>
    \/ RunBegin /\ UNCHANGED <<dbvars, clvars, pmvars, nmvars, stvars, plvars>>
    \/ MainEnds /\ UNCHANGED <<dbvars, clvars, pmvars, nmvars, stvars, plvars>>

SpecService == InitService /\ [][NextService]_vars

\* C30: the marker is created only by a call in which the version check
\* passed and every required package was importable already or installed
\* successfully; a call that returns False creates no marker; with the
\* marker in place a call returns True without checking or installing a
\* package; analytics_main is invoked only after setup_dependencies
\* returned True, and sys.argv is restored on every way out.
C30_MarkerAndArgv ==
    /\ sv_last.op # "none" =>
          LET s == sv_last.setup
          IN  /\ sv_marker = (sv_last.marker_before \/ s.touched)
              /\ s.touched =>
                    /\ ~sv_last.marker_before
                    /\ s.version_checked /\ sv_python_ok
                    /\ s.failed = {}
                    /\ \A p \in Packages :
                          p \in s.found \/ p \in (s.attempted \ s.failed)
                    /\ s.returned = "True"
              /\ s.returned = "False" => ~s.touched
              /\ sv_last.marker_before =>
                    /\ s.returned = "True"
                    /\ ~s.version_checked
                    /\ s.found = {} /\ s.attempted = {}
              /\ sv_last.main_invoked => s.returned = "True"
    /\ sv_pc = "in_main" => (sv_last.main_invoked /\ sv_argv = AnalyticsArgv)
    /\ sv_pc = "idle" => sv_argv = CallerArgv

C30_Witness ==
    /\ sv_pc = "idle" /\ sv_last.op = "run" /\ sv_last.result = "SystemExit"
    /\ sv_last.main_invoked /\ sv_last.setup.touched
    /\ sv_last.setup.attempted = {"numpy", "reportlab"}
    /\ sv_last.setup.found = {"pandas"}
    /\ sv_marker /\ sv_argv = CallerArgv

====
